---- MODULE Spec2Model ----
(***************************************************************************)
(* The display worker of telegram_bot.py (thread_display), the producers   *)
(* that feed it (format_image, run by the handlers of the polling loop)    *)
(* and the orchestration in main: thread start, run_polling, do_run,      *)
(* pill2kill.set(), thread.join().                                         *)
(*                                                                         *)
(* The st7789v Display and its RaspberryPi interface are a library outside *)
(* the repository.  A call of it is modelled by what thread_display makes  *)
(* of it: the call is recorded, it either returns (and the panel state the *)
(* call names changes) or raises, and an exception leaves thread_display   *)
(* through the with block, since the only handler in it is `except Empty`. *)
(***************************************************************************)
EXTENDS Integers, Sequences, FiniteSets, TLC

\* ------------------------------------------------------------- bounds
\* Handler invocations (format_image calls) in one run of the process.
MaxFrames == 2
\* Length of the recorded prefix of the display calls.
MaxCalls == 16

\* ---------------------------------------------------------- constants
PANEL_W == 240
PANEL_H == 320
COLOR_MODE == 666
\* Delays of thread_display, in milliseconds.
POLL_MS == 1000
SETTLE_MS == 250
HOLD_MS == 5000
IMG_DISPLAY_SEC == 10
IDLE_MS == 1000

PanelPixels == PANEL_W * PANEL_H
img_dsp_ms == IMG_DISPLAY_SEC * 1000
\* The longest run of fixed delays of one display cycle.
CycleMs == SETTLE_MS + HOLD_MS + img_dsp_ms

Handlers == 1..MaxFrames

VARIABLES
  img_queue,        \* the global Queue: a sequence of frames, head first
  p2k,              \* pill2kill: the Event is set
  do_run,           \* the do_run attribute of the thread object (absent = TRUE)
  mpc,              \* main's position
  wpc,              \* thread_display's position
  data,             \* the frame thread_display holds (NoFrame: none)
  is_log_turn_off,  \* the flag of line 44
  held,             \* the RaspberryPi interface is acquired (inside the with)
  power,            \* panel power: "unset" (no turn_on/turn_off yet), "on", "off"
  backlight,        \* backlight pin: "unset", "on", "off"
  color_mode,       \* last colour mode given to the panel (0: none)
  err,              \* the exception that ended thread_display ("none": none)
  errAt,            \* thread_display's position when the exception was raised
  calls,            \* the display calls made, in order (first MaxCalls of them)
  recent,           \* the last two display calls made
  enq,              \* handler ids in the order of their img_queue.put
  deq,              \* frame ids in the order q.get_nowait returned them
  drawn,            \* frame ids in the order draw_rgb_bytes was called on them
  backlog,          \* the most frames the queue has held at once
  lateMs,           \* delays thread_display began after the Event was set, summed
  raisedAt,         \* thread_display's position when the Event was set
  deqAtRaise,       \* the number of frames dequeued when the Event was set
  nAcq,             \* the number of times the interface was acquired
  nRel,             \* the number of times the interface was released
  offLogs           \* 'Turning off' messages logged since the last dequeue

vars == << img_queue, p2k, do_run, mpc, wpc, data, is_log_turn_off, held,
           power, backlight, color_mode, err, errAt, calls, recent, enq, deq,
           drawn, backlog, lateMs, raisedAt, deqAtRaise, nAcq, nRel, offLogs >>

NoFrame == [id |-> 0, len |-> 0]
\* canvas = Image.new('RGB', (240, 320)); canvas.convert('RGB').getdata()
Canvas(h) == [id |-> h, len |-> PANEL_W * PANEL_H]
\* [[0, 0, 0]] * 240 * 320, the frame of the clear at line 41
Black == [id |-> 0, len |-> PANEL_W * PANEL_H]

Call(op, arg) == [op |-> op, arg |-> arg]

\* One display call is made: it is appended to the record.
Made(c) ==
  /\ calls' = IF Len(calls) < MaxCalls THEN Append(calls, c) ELSE calls
  /\ recent' = IF Len(recent) < 2 THEN Append(recent, c) ELSE << recent[2], c >>

\* time.sleep(ms): a delay that began with the Event already set is one the
\* shutdown request has to wait out.
Sleep(ms) == lateMs' = IF p2k THEN lateMs + ms ELSE lateMs

Init ==
  /\ img_queue = << >>
  /\ p2k = FALSE
  /\ do_run = TRUE
  /\ mpc = "start"
  /\ wpc = "unstarted"
  /\ data = NoFrame
  /\ is_log_turn_off = FALSE
  /\ held = FALSE
  /\ power = "unset"
  /\ backlight = "unset"
  /\ color_mode = 0
  /\ err = "none"
  /\ errAt = "none"
  /\ backlog = 0
  /\ calls = << >>
  /\ recent = << >>
  /\ enq = << >>
  /\ deq = << >>
  /\ drawn = << >>
  /\ lateMs = 0
  /\ raisedAt = "none"
  /\ deqAtRaise = 0
  /\ nAcq = 0
  /\ nRel = 0
  /\ offLogs = 0

\* ---------------------------------------------------------------- main

\* TELEGRAM_TOKEN is not set: main returns before the thread exists.
MainNoToken ==
  /\ mpc = "start"
  /\ mpc' = "returned"
  /\ UNCHANGED << img_queue, p2k, do_run, wpc, data, is_log_turn_off, held,
                  power, backlight, color_mode, err, errAt, calls, recent,
                  enq, deq, drawn, backlog, lateMs, raisedAt, deqAtRaise,
                  nAcq, nRel, offLogs >>

\* pill2kill = Event(); thread = Thread(...); thread.start(); run_polling begins.
MainStartThread ==
  /\ mpc = "start"
  /\ mpc' = "polling"
  /\ wpc' = "start"
  /\ UNCHANGED << img_queue, p2k, do_run, data, is_log_turn_off, held, power,
                  backlight, color_mode, err, errAt, calls, recent, enq, deq,
                  drawn, backlog, lateMs, raisedAt, deqAtRaise, nAcq, nRel,
                  offLogs >>

\* application.run_polling returns (Ctrl-C).
MainPollingEnd ==
  /\ mpc = "polling"
  /\ mpc' = "set_do_run"
  /\ UNCHANGED << img_queue, p2k, do_run, wpc, data, is_log_turn_off, held,
                  power, backlight, color_mode, err, errAt, calls, recent,
                  enq, deq, drawn, backlog, lateMs, raisedAt, deqAtRaise,
                  nAcq, nRel, offLogs >>

\* thread.do_run = False
MainSetDoRun ==
  /\ mpc = "set_do_run"
  /\ do_run' = FALSE
  /\ mpc' = "set_event"
  /\ UNCHANGED << img_queue, p2k, wpc, data, is_log_turn_off, held, power,
                  backlight, color_mode, err, errAt, calls, recent, enq, deq,
                  drawn, backlog, lateMs, raisedAt, deqAtRaise, nAcq, nRel,
                  offLogs >>

\* pill2kill.set()
MainSetEvent ==
  /\ mpc = "set_event"
  /\ p2k' = TRUE
  /\ raisedAt' = wpc
  /\ deqAtRaise' = Len(deq)
  /\ mpc' = "join"
  /\ UNCHANGED << img_queue, do_run, wpc, data, is_log_turn_off, held, power,
                  backlight, color_mode, err, errAt, calls, recent, enq, deq,
                  drawn, backlog, lateMs, nAcq, nRel, offLogs >>

\* A thread is over when its target returned or an exception left it.
Terminated == wpc \in {"done", "crashed"}

\* A main that, once the thread is joined, powers the panel off itself.
MainJoin_turnoff ==
  /\ mpc = "join"
  /\ Terminated
  /\ Made(Call("turn_off", 0))
  /\ power' = "off"
  /\ mpc' = "stopped"
  /\ UNCHANGED << img_queue, p2k, do_run, wpc, data, is_log_turn_off, held,
                  backlight, color_mode, err, errAt, enq, deq, drawn, backlog,
                  lateMs, raisedAt, deqAtRaise, nAcq, nRel, offLogs >>

\* thread.join() returns; 'Main | Thread end', 'Main | Stop'.
MainJoin ==
  /\ mpc = "join"
  /\ Terminated
  /\ mpc' = "stopped"
  /\ UNCHANGED << img_queue, p2k, do_run, wpc, data, is_log_turn_off, held,
                  power, backlight, color_mode, err, errAt, calls, recent,
                  enq, deq, drawn, backlog, lateMs, raisedAt, deqAtRaise,
                  nAcq, nRel, offLogs >>

\* ------------------------------------------------------------ producers

\* format_image, run by a handler of the polling loop: the canvas is built
\* and put on img_queue (the reply to the chat touches no state of the core).
format_image(h) ==
  /\ mpc = "polling"
  /\ \A i \in 1..Len(enq) : enq[i] # h
  /\ img_queue' = Append(img_queue, Canvas(h))
  /\ enq' = Append(enq, h)
  /\ backlog' = IF Len(img_queue) + 1 > backlog THEN Len(img_queue) + 1 ELSE backlog
  /\ UNCHANGED << p2k, do_run, mpc, wpc, data, is_log_turn_off, held, power,
                  backlight, color_mode, err, errAt, calls, recent, deq,
                  drawn, lateMs, raisedAt, deqAtRaise, nAcq, nRel, offLogs >>

\* ------------------------------------------------------- thread_display

\* The display call thread_display makes at each of its call sites.
CallAt(pc) ==
  CASE pc = "init" -> Call("initialize", COLOR_MODE)
    [] pc = "clear" -> Call("draw", Black.id)
    [] pc = "turn_on" -> Call("turn_on", 0)
    [] pc = "bl_on" -> Call("set_backlight", 1)
    [] pc = "draw1" -> Call("draw", data.id)
    [] pc = "color" -> Call("set_color_mode", COLOR_MODE)
    [] pc = "draw2" -> Call("draw", data.id)
    [] pc = "idle_bl" -> Call("set_backlight", 0)
    [] pc = "idle_off" -> Call("turn_off", 0)
    [] pc = "final_bl" -> Call("set_backlight", 0)
    [] pc = "final_off" -> Call("turn_off", 0)

CallSites == {"init", "clear", "turn_on", "bl_on", "draw1", "color", "draw2",
              "idle_bl", "idle_off", "final_bl", "final_off"}

\* with RaspberryPi() as rpi: the interface is acquired.
Acquire ==
  /\ wpc = "start"
  /\ held' = TRUE
  /\ nAcq' = nAcq + 1
  /\ wpc' = "init"
  /\ UNCHANGED << img_queue, p2k, do_run, mpc, data, is_log_turn_off, power,
                  backlight, color_mode, err, errAt, calls, recent, enq, deq,
                  drawn, backlog, lateMs, raisedAt, deqAtRaise, nRel, offLogs >>

\* A failed acquisition after which the with body runs all the same.
AcquireFails_continue ==
  /\ wpc = "start"
  /\ err' = "HardwareUnavailable"
  /\ errAt' = wpc
  /\ wpc' = "init"
  /\ UNCHANGED << img_queue, p2k, do_run, mpc, data, is_log_turn_off, held,
                  power, backlight, color_mode, calls, recent, enq, deq,
                  drawn, backlog, lateMs, raisedAt, deqAtRaise, nAcq, nRel,
                  offLogs >>

\* RaspberryPi() or its __enter__ raises: nothing of the with body runs.
AcquireFails ==
  /\ wpc = "start"
  /\ err' = "HardwareUnavailable"
  /\ errAt' = wpc
  /\ wpc' = "crashed"
  /\ UNCHANGED << img_queue, p2k, do_run, mpc, data, is_log_turn_off, held,
                  power, backlight, color_mode, calls, recent, enq, deq,
                  drawn, backlog, lateMs, raisedAt, deqAtRaise, nAcq, nRel,
                  offLogs >>

\* display = Display(rpi); display.initialize(color_mode=666, inverted=False)
Initialize ==
  /\ wpc = "init"
  /\ Made(CallAt(wpc))
  /\ color_mode' = COLOR_MODE
  /\ wpc' = "clear"
  /\ UNCHANGED << img_queue, p2k, do_run, mpc, data, is_log_turn_off, held,
                  power, backlight, err, errAt, enq, deq, drawn, backlog,
                  lateMs, raisedAt, deqAtRaise, nAcq, nRel, offLogs >>

\* display.draw_rgb_bytes([[0, 0, 0]] * 240 * 320); is_log_turn_off = False
Clear ==
  /\ wpc = "clear"
  /\ Made(CallAt(wpc))
  /\ is_log_turn_off' = FALSE
  /\ wpc' = "loop"
  /\ UNCHANGED << img_queue, p2k, do_run, mpc, data, held, power, backlight,
                  color_mode, err, errAt, enq, deq, drawn, backlog, lateMs,
                  raisedAt, deqAtRaise, nAcq, nRel, offLogs >>

\* while getattr(t, "do_run", True) and ...: the left operand.
LoopTest ==
  /\ wpc = "loop"
  /\ wpc' = IF do_run THEN "wait" ELSE "final_bl"
  /\ UNCHANGED << img_queue, p2k, do_run, mpc, data, is_log_turn_off, held,
                  power, backlight, color_mode, err, errAt, calls, recent,
                  enq, deq, drawn, backlog, lateMs, raisedAt, deqAtRaise,
                  nAcq, nRel, offLogs >>

\* ... and not p2k.wait(1): True as soon as the Event is set, False once a
\* second has passed without it.
EventWait ==
  /\ wpc = "wait"
  /\ wpc' = IF p2k THEN "final_bl" ELSE "get"
  /\ UNCHANGED << img_queue, p2k, do_run, mpc, data, is_log_turn_off, held,
                  power, backlight, color_mode, err, errAt, calls, recent,
                  enq, deq, drawn, backlog, lateMs, raisedAt, deqAtRaise,
                  nAcq, nRel, offLogs >>

\* A queue that hands out its newest item first (a LifoQueue) in place of Queue.
GetNowait_lifo ==
  /\ wpc = "get"
  /\ img_queue # << >>
  /\ data' = img_queue[Len(img_queue)]
  /\ img_queue' = SubSeq(img_queue, 1, Len(img_queue) - 1)
  /\ deq' = Append(deq, img_queue[Len(img_queue)].id)
  /\ is_log_turn_off' = FALSE
  /\ offLogs' = 0
  /\ wpc' = "turn_on"
  /\ UNCHANGED << p2k, do_run, mpc, held, power, backlight, color_mode, err,
                  errAt, calls, recent, enq, drawn, backlog, lateMs, raisedAt,
                  deqAtRaise, nAcq, nRel >>

\* A worker that shows only the newest frame: it drains the queue and keeps
\* the last item.
GetNowait_latest ==
  /\ wpc = "get"
  /\ img_queue # << >>
  /\ data' = img_queue[Len(img_queue)]
  /\ img_queue' = << >>
  /\ deq' = Append(deq, img_queue[Len(img_queue)].id)
  /\ is_log_turn_off' = FALSE
  /\ offLogs' = 0
  /\ wpc' = "turn_on"
  /\ UNCHANGED << p2k, do_run, mpc, held, power, backlight, color_mode, err,
                  errAt, calls, recent, enq, drawn, backlog, lateMs, raisedAt,
                  deqAtRaise, nAcq, nRel >>

\* data = q.get_nowait() returns the head of the queue; lines 51-53.
GetNowait ==
  /\ wpc = "get"
  /\ img_queue # << >>
  /\ data' = Head(img_queue)
  /\ img_queue' = Tail(img_queue)
  /\ deq' = Append(deq, Head(img_queue).id)
  /\ is_log_turn_off' = FALSE
  /\ offLogs' = 0
  /\ wpc' = "turn_on"
  /\ UNCHANGED << p2k, do_run, mpc, held, power, backlight, color_mode, err,
                  errAt, calls, recent, enq, drawn, backlog, lateMs, raisedAt,
                  deqAtRaise, nAcq, nRel >>

\* An empty poll that logs 'Turning off' whatever the flag says.
GetEmpty_always_logs ==
  /\ wpc = "get"
  /\ img_queue = << >>
  /\ offLogs' = offLogs + 1
  /\ is_log_turn_off' = TRUE
  /\ wpc' = "idle_bl"
  /\ UNCHANGED << img_queue, p2k, do_run, mpc, data, held, power, backlight,
                  color_mode, err, errAt, calls, recent, enq, deq, drawn,
                  backlog, lateMs, raisedAt, deqAtRaise, nAcq, nRel >>

\* A blocking q.get(): on an empty queue thread_display stays where it is.
GetEmpty_blocking ==
  /\ wpc = "get"
  /\ img_queue = << >>
  /\ UNCHANGED vars

\* q.get_nowait() raises Empty; lines 63-66: the message is logged unless
\* the flag is set, and the flag is set.
GetEmpty ==
  /\ wpc = "get"
  /\ img_queue = << >>
  /\ offLogs' = IF is_log_turn_off THEN offLogs ELSE offLogs + 1
  /\ is_log_turn_off' = TRUE
  /\ wpc' = "idle_bl"
  /\ UNCHANGED << img_queue, p2k, do_run, mpc, data, held, power, backlight,
                  color_mode, err, errAt, calls, recent, enq, deq, drawn,
                  backlog, lateMs, raisedAt, deqAtRaise, nAcq, nRel >>

\* display.turn_on()
TurnOn ==
  /\ wpc = "turn_on"
  /\ Made(CallAt(wpc))
  /\ power' = "on"
  /\ wpc' = "settle"
  /\ UNCHANGED << img_queue, p2k, do_run, mpc, data, is_log_turn_off, held,
                  backlight, color_mode, err, errAt, enq, deq, drawn, backlog,
                  lateMs, raisedAt, deqAtRaise, nAcq, nRel, offLogs >>

\* time.sleep(.25)
Settle ==
  /\ wpc = "settle"
  /\ Sleep(SETTLE_MS)
  /\ wpc' = "bl_on"
  /\ UNCHANGED << img_queue, p2k, do_run, mpc, data, is_log_turn_off, held,
                  power, backlight, color_mode, err, errAt, calls, recent,
                  enq, deq, drawn, backlog, raisedAt, deqAtRaise, nAcq, nRel,
                  offLogs >>

\* display.set_backlight(1)
BacklightOn ==
  /\ wpc = "bl_on"
  /\ Made(CallAt(wpc))
  /\ backlight' = "on"
  /\ wpc' = "draw1"
  /\ UNCHANGED << img_queue, p2k, do_run, mpc, data, is_log_turn_off, held,
                  power, color_mode, err, errAt, enq, deq, drawn, backlog,
                  lateMs, raisedAt, deqAtRaise, nAcq, nRel, offLogs >>

\* display.draw_rgb_bytes(data_list), line 57
Draw1 ==
  /\ wpc = "draw1"
  /\ Made(CallAt(wpc))
  /\ drawn' = Append(drawn, data.id)
  /\ wpc' = "hold"
  /\ UNCHANGED << img_queue, p2k, do_run, mpc, data, is_log_turn_off, held,
                  power, backlight, color_mode, err, errAt, enq, deq, backlog,
                  lateMs, raisedAt, deqAtRaise, nAcq, nRel, offLogs >>

\* A hold that the Event cuts short: Event.wait(5) in place of time.sleep(5).
Hold_interruptible ==
  /\ wpc = "hold"
  /\ Sleep(HOLD_MS)
  /\ wpc' = IF p2k THEN "final_bl" ELSE "color"
  /\ UNCHANGED << img_queue, p2k, do_run, mpc, data, is_log_turn_off, held,
                  power, backlight, color_mode, err, errAt, calls, recent,
                  enq, deq, drawn, backlog, raisedAt, deqAtRaise, nAcq, nRel,
                  offLogs >>

\* time.sleep(5)
Hold ==
  /\ wpc = "hold"
  /\ Sleep(HOLD_MS)
  /\ wpc' = "color"
  /\ UNCHANGED << img_queue, p2k, do_run, mpc, data, is_log_turn_off, held,
                  power, backlight, color_mode, err, errAt, calls, recent,
                  enq, deq, drawn, backlog, raisedAt, deqAtRaise, nAcq, nRel,
                  offLogs >>

\* A cycle that draws twice without giving the colour mode again in between.
SetColorMode_omitted ==
  /\ wpc = "color"
  /\ wpc' = "draw2"
  /\ UNCHANGED << img_queue, p2k, do_run, mpc, data, is_log_turn_off, held,
                  power, backlight, color_mode, err, errAt, calls, recent,
                  enq, deq, drawn, backlog, lateMs, raisedAt, deqAtRaise,
                  nAcq, nRel, offLogs >>

\* display.set_color_mode(666)
SetColorMode ==
  /\ wpc = "color"
  /\ Made(CallAt(wpc))
  /\ color_mode' = COLOR_MODE
  /\ wpc' = "draw2"
  /\ UNCHANGED << img_queue, p2k, do_run, mpc, data, is_log_turn_off, held,
                  power, backlight, err, errAt, enq, deq, drawn, backlog,
                  lateMs, raisedAt, deqAtRaise, nAcq, nRel, offLogs >>

\* display.draw_rgb_bytes(data_list), line 60
Draw2 ==
  /\ wpc = "draw2"
  /\ Made(CallAt(wpc))
  /\ drawn' = Append(drawn, data.id)
  /\ wpc' = "show"
  /\ UNCHANGED << img_queue, p2k, do_run, mpc, data, is_log_turn_off, held,
                  power, backlight, color_mode, err, errAt, enq, deq, backlog,
                  lateMs, raisedAt, deqAtRaise, nAcq, nRel, offLogs >>

\* A loop that goes on to the next frame after the display duration without
\* passing the while condition.
ShowWait_next ==
  /\ wpc = "show"
  /\ Sleep(img_dsp_ms)
  /\ wpc' = "get"
  /\ UNCHANGED << img_queue, p2k, do_run, mpc, data, is_log_turn_off, held,
                  power, backlight, color_mode, err, errAt, calls, recent,
                  enq, deq, drawn, backlog, raisedAt, deqAtRaise, nAcq, nRel,
                  offLogs >>

\* A loop that, after the display duration, takes the next pending frame
\* without passing the while condition, and tests it only on an empty queue.
ShowWait_drains ==
  /\ wpc = "show"
  /\ Sleep(img_dsp_ms)
  /\ wpc' = IF img_queue # << >> THEN "get" ELSE "loop"
  /\ UNCHANGED << img_queue, p2k, do_run, mpc, data, is_log_turn_off, held,
                  power, backlight, color_mode, err, errAt, calls, recent,
                  enq, deq, drawn, backlog, raisedAt, deqAtRaise, nAcq, nRel,
                  offLogs >>

\* time.sleep(img_dsp_sec), then back to the while condition
ShowWait ==
  /\ wpc = "show"
  /\ Sleep(img_dsp_ms)
  /\ wpc' = "loop"
  /\ UNCHANGED << img_queue, p2k, do_run, mpc, data, is_log_turn_off, held,
                  power, backlight, color_mode, err, errAt, calls, recent,
                  enq, deq, drawn, backlog, raisedAt, deqAtRaise, nAcq, nRel,
                  offLogs >>

\* The idle branch without its set_backlight(0): it goes from the log lines
\* straight to the sleep and turn_off().
IdleBacklightOff_omitted ==
  /\ wpc = "idle_bl"
  /\ wpc' = "idle_sleep"
  /\ UNCHANGED << img_queue, p2k, do_run, mpc, data, is_log_turn_off, held,
                  power, backlight, color_mode, err, errAt, calls, recent,
                  enq, deq, drawn, backlog, lateMs, raisedAt, deqAtRaise,
                  nAcq, nRel, offLogs >>

\* display.set_backlight(0), line 67
IdleBacklightOff ==
  /\ wpc = "idle_bl"
  /\ Made(CallAt(wpc))
  /\ backlight' = "off"
  /\ wpc' = "idle_sleep"
  /\ UNCHANGED << img_queue, p2k, do_run, mpc, data, is_log_turn_off, held,
                  power, color_mode, err, errAt, enq, deq, drawn, backlog,
                  lateMs, raisedAt, deqAtRaise, nAcq, nRel, offLogs >>

\* time.sleep(1), line 68
IdleSleep ==
  /\ wpc = "idle_sleep"
  /\ Sleep(IDLE_MS)
  /\ wpc' = "idle_off"
  /\ UNCHANGED << img_queue, p2k, do_run, mpc, data, is_log_turn_off, held,
                  power, backlight, color_mode, err, errAt, calls, recent,
                  enq, deq, drawn, backlog, raisedAt, deqAtRaise, nAcq, nRel,
                  offLogs >>

\* display.turn_off(), line 69, then back to the while condition
IdleTurnOff ==
  /\ wpc = "idle_off"
  /\ Made(CallAt(wpc))
  /\ power' = "off"
  /\ wpc' = "loop"
  /\ UNCHANGED << img_queue, p2k, do_run, mpc, data, is_log_turn_off, held,
                  backlight, color_mode, err, errAt, enq, deq, drawn, backlog,
                  lateMs, raisedAt, deqAtRaise, nAcq, nRel, offLogs >>

\* display.set_backlight(0), line 72
FinalBacklightOff ==
  /\ wpc = "final_bl"
  /\ Made(CallAt(wpc))
  /\ backlight' = "off"
  /\ wpc' = "final_off"
  /\ UNCHANGED << img_queue, p2k, do_run, mpc, data, is_log_turn_off, held,
                  power, color_mode, err, errAt, enq, deq, drawn, backlog,
                  lateMs, raisedAt, deqAtRaise, nAcq, nRel, offLogs >>

\* display.turn_off(), line 73
FinalTurnOff ==
  /\ wpc = "final_off"
  /\ Made(CallAt(wpc))
  /\ power' = "off"
  /\ wpc' = "exit"
  /\ UNCHANGED << img_queue, p2k, do_run, mpc, data, is_log_turn_off, held,
                  backlight, color_mode, err, errAt, enq, deq, drawn, backlog,
                  lateMs, raisedAt, deqAtRaise, nAcq, nRel, offLogs >>

\* 'thread_display | Stop.', the with block is left: the interface is released.
Exit ==
  /\ wpc = "exit"
  /\ held' = FALSE
  /\ nRel' = nRel + 1
  /\ wpc' = "done"
  /\ UNCHANGED << img_queue, p2k, do_run, mpc, data, is_log_turn_off, power,
                  backlight, color_mode, err, errAt, calls, recent, enq, deq,
                  drawn, backlog, lateMs, raisedAt, deqAtRaise, nAcq, offLogs >>

\* A display call raises (a bus error of the library): the call was made, the
\* panel state it names is not changed, and no handler of thread_display
\* catches it (the only one is `except Empty`).
RaiseHardwareIoError ==
  /\ wpc \in CallSites
  /\ Made(CallAt(wpc))
  /\ err' = "HardwareIoError"
  /\ errAt' = wpc
  /\ wpc' = "unwind"
  /\ UNCHANGED << img_queue, p2k, do_run, mpc, data, is_log_turn_off, held,
                  power, backlight, color_mode, enq, deq, drawn, backlog,
                  lateMs, raisedAt, deqAtRaise, nAcq, nRel, offLogs >>

\* An exception that leaves thread_display without the interface's __exit__.
ExitOnError_leak ==
  /\ wpc = "unwind"
  /\ wpc' = "crashed"
  /\ UNCHANGED << img_queue, p2k, do_run, mpc, data, is_log_turn_off, held,
                  power, backlight, color_mode, err, errAt, calls, recent,
                  enq, deq, drawn, backlog, lateMs, raisedAt, deqAtRaise,
                  nAcq, nRel, offLogs >>

\* The exception leaves the with block (the interface is released) and then
\* thread_display: the thread is over, lines 71-74 have not run.
ExitOnError ==
  /\ wpc = "unwind"
  /\ held' = FALSE
  /\ nRel' = nRel + 1
  /\ wpc' = "crashed"
  /\ UNCHANGED << img_queue, p2k, do_run, mpc, data, is_log_turn_off, power,
                  backlight, color_mode, err, errAt, calls, recent, enq, deq,
                  drawn, backlog, lateMs, raisedAt, deqAtRaise, nAcq, offLogs >>

\* The steps of thread_display in which every call returns.
Worker ==
  \/ Acquire \/ Initialize \/ Clear \/ LoopTest \/ EventWait
  \/ GetNowait \/ GetEmpty
  \/ TurnOn \/ Settle \/ BacklightOn \/ Draw1 \/ Hold \/ SetColorMode
  \/ Draw2 \/ ShowWait
  \/ IdleBacklightOff \/ IdleSleep \/ IdleTurnOff
  \/ FinalBacklightOff \/ FinalTurnOff \/ Exit \/ ExitOnError

Faults == AcquireFails \/ RaiseHardwareIoError

Main ==
  MainNoToken \/ MainStartThread \/ MainPollingEnd \/ MainSetDoRun
  \/ MainSetEvent \/ MainJoin

Producers == \E h \in Handlers : format_image(h)

Next == Main \/ Producers \/ Worker \/ Faults

Spec == Init /\ [][Next]_vars

\* The thread of thread_display is scheduled as long as it can take a step:
\* every sleep and every p2k.wait(1) ends, every call that returns returns.
\* Nothing obliges a call to raise, main to leave run_polling or a handler
\* to run.
LiveSpec == Spec /\ WF_vars(Worker)

\* thread.join() returns once the thread is over, and then main goes on.
JoinSpec == LiveSpec /\ WF_vars(MainJoin)

\* ------------------------------------------- thread_display on any queue

\* The lengths a frame on the queue q of thread_display(p2k, q) may have:
\* that of the panel and one that differs from it.
FrameLens == {PANEL_W * PANEL_H, PANEL_W * PANEL_H - 1}

\* q.put(frame) by any producer of the queue thread_display is given.
put(h, n) ==
  /\ mpc = "polling"
  /\ \A i \in 1..Len(enq) : enq[i] # h
  /\ img_queue' = Append(img_queue, [id |-> h, len |-> n])
  /\ enq' = Append(enq, h)
  /\ backlog' = IF Len(img_queue) + 1 > backlog THEN Len(img_queue) + 1 ELSE backlog
  /\ UNCHANGED << p2k, do_run, mpc, wpc, data, is_log_turn_off, held, power,
                  backlight, color_mode, err, errAt, calls, recent, deq,
                  drawn, lateMs, raisedAt, deqAtRaise, nAcq, nRel, offLogs >>

\* draw_rgb_bytes is handed data_list as it came from the queue, whatever its
\* length: if the library raises on a length that is not the panel's, the
\* exception leaves thread_display as any other does.
RaiseInvalidFrameSize ==
  /\ wpc \in {"draw1", "draw2"}
  /\ data.len # PANEL_W * PANEL_H
  /\ Made(CallAt(wpc))
  /\ err' = "InvalidFrameSize"
  /\ errAt' = wpc
  /\ wpc' = "unwind"
  /\ UNCHANGED << img_queue, p2k, do_run, mpc, data, is_log_turn_off, held,
                  power, backlight, color_mode, enq, deq, drawn, backlog,
                  lateMs, raisedAt, deqAtRaise, nAcq, nRel, offLogs >>

AnyProducers == \E h \in Handlers : \E n \in FrameLens : put(h, n)

NextAnyFrame == Main \/ AnyProducers \/ Worker \/ Faults \/ RaiseInvalidFrameSize

AnyFrameSpec == Init /\ [][NextAnyFrame]_vars

\* ---------------------------------------------------------------- claims

RECURSIVE Collapse(_)
\* s without the repetitions of an element right after itself.
Collapse(s) ==
  IF Len(s) <= 1 THEN s
  ELSE LET r == Collapse(Tail(s))
       IN IF Head(s) = Head(r) THEN r ELSE << Head(s) >> \o r

IsPrefix(s, t) == Len(s) <= Len(t) /\ SubSeq(t, 1, Len(s)) = s

\* C1: the frames thread_display draws, in the order of its draw calls, are
\* the frames in the order the producers put them on the queue: the sequence
\* of frames drawn is at every moment a prefix of the sequence enqueued, so
\* no frame is drawn before one that was enqueued earlier.
C1_DrawnInEnqueueOrder == IsPrefix(Collapse(drawn), enq)

\* Two frames put by two handlers, the second handler first, both drawn twice.
C1_Witness == enq = << 2, 1 >> /\ drawn = << 2, 2, 1, 1 >>

\* The panel is off / the backlight is off.  "unset" (no power, no backlight
\* call has returned yet) is read as off: the panel is then as the library's
\* initialize left it.
PanelOff == power # "on"
BacklightOff == backlight # "on"

\* The last two display calls made are set_backlight(0) and then turn_off().
CleanupCalled ==
  recent = << Call("set_backlight", 0), Call("turn_off", 0) >>

\* The positions of thread_display inside its while loop: the states Idle,
\* Waking and Showing and the condition between them.
LoopSites == {"loop", "wait", "get", "turn_on", "settle", "bl_on", "draw1",
              "hold", "color", "draw2", "show", "idle_bl", "idle_sleep",
              "idle_off"}

\* C2: once the Event has been set with thread_display somewhere in its
\* loop, thread_display does not terminate before it has called
\* set_backlight(0) and turn_off(): when it is over, panel power and backlight
\* are off.
C2_ShutdownPowersOff ==
  (raisedAt \in LoopSites /\ Terminated) => (PanelOff /\ BacklightOff)

\* What holds of the code: C2 on the runs in which no call raises.
C2_ShutdownPowersOffUnlessRaised ==
  (raisedAt \in LoopSites /\ wpc = "done")
    => (CleanupCalled /\ power = "off" /\ backlight = "off")

\* C3: a display call of the loop that raises does not keep thread_display
\* from switching backlight and panel off: when thread_display is over after
\* such an error, panel power and backlight are off, as set_backlight(0) and
\* turn_off() leave them.
C3_ErrorPathPowersOff ==
  (wpc = "crashed" /\ err = "HardwareIoError" /\ errAt \in LoopSites)
    => (PanelOff /\ BacklightOff)

\* C6: there is no state in which thread_display has been ended by a
\* hardware error while main is still in run_polling, where the handlers go
\* on putting frames on a queue nobody reads.
C6_ProcessEndsWithWorker ==
  ~(/\ wpc = "crashed"
    /\ err = "HardwareIoError"
    /\ mpc = "polling"
    /\ img_queue # << >>)

\* C7: whenever the last display call made is turn_off(), the call before it
\* is set_backlight(0), with no set_backlight(1) in between, and the backlight
\* is off: on the idle path (lines 67-69) and on the shutdown path (72-73).
C7_BacklightOffBeforeTurnOff ==
  (recent # << >> /\ recent[Len(recent)].op = "turn_off")
    => (CleanupCalled /\ backlight = "off")

\* turn_off() of the shutdown path has just been called, after a frame was
\* shown with the backlight on and, earlier, turn_off() of the idle path.
C7_Witness ==
  /\ wpc = "exit"
  /\ recent[2] = Call("turn_off", 0)
  /\ \E i \in 1..Len(calls) : \E j \in 1..Len(calls) :
       /\ i < j
       /\ calls[i] = Call("turn_off", 0)
       /\ calls[j] = Call("set_backlight", 1)

\* C10: main is at its end ('Main | Stop') only when thread_display is over,
\* and then panel power and backlight are off.
C10_MainStopsAfterWorkerOff ==
  mpc = "stopped" => (Terminated /\ PanelOff /\ BacklightOff)

\* What holds of the code: main is at its end only when thread_display is
\* over, and the panel is off unless an exception ended thread_display.
C10_MainStopsAfterWorker ==
  mpc = "stopped"
    => (Terminated /\ (wpc = "done" => power = "off" /\ backlight = "off"))

RECURSIVE Double(_)
\* s with each of its elements twice in a row.
Double(s) ==
  IF s = << >> THEN << >>
  ELSE << Head(s), Head(s) >> \o Double(Tail(s))

\* The number of times x is in s.
Count(s, x) == Cardinality({i \in 1..Len(s) : s[i] = x})

\* No shutdown has been asked for and no call has raised.
Undisturbed == do_run /\ ~p2k /\ err = "none"

\* Frames leave the queue in the order they entered it, none skipped and none
\* twice; each frame dequeued is drawn twice before the next is dequeued, and
\* no draw is of another frame.
C4_OncePerFrame ==
  /\ IsPrefix(deq, enq)
  /\ IsPrefix(drawn, Double(deq))
  /\ Len(drawn) >= 2 * (Len(deq) - 1)

\* C4: every frame put on the queue is dequeued once and drawn twice, in one
\* cycle of its own, and it is so eventually unless the shutdown is asked for
\* or a call raises; a backlog of several frames changes nothing of it.
C4_EveryFrameShownInFull ==
  /\ [] C4_OncePerFrame
  /\ \A h \in Handlers :
       [] ((Count(enq, h) = 1) => <> (Count(drawn, h) = 2 \/ ~Undisturbed))

\* Two frames were in the queue at once before the first was dequeued, and
\* both have been drawn twice, undisturbed.
C4_Witness ==
  /\ Len(enq) = 2
  /\ backlog = 2
  /\ drawn = Double(enq)
  /\ wpc = "loop"
  /\ Undisturbed

WaitSites == {"wait", "settle", "hold", "show", "idle_sleep"}

\* C8 as claimed: whichever wait thread_display is in when the Event is set,
\* it notices within one poll interval: the delays it still begins after the
\* Event is set never add up to more than that interval.
C8_NoticedWithinPoll == raisedAt \in WaitSites => lateMs <= POLL_MS

\* The positions from which thread_display has noticed the request.
Noticed == {"final_bl", "final_off", "exit", "done"}

\* C8 as amended: the request is read at the while condition only.  Set when
\* thread_display is at the condition (the do_run test, p2k.wait), no further
\* delay is begun; set in the idle branch, at most the 1 s delay of line 68 is;
\* set in a display cycle, the delays the cycle still has are all run before
\* it is noticed (the whole 0.25 s + 5 s + img_dsp_sec when it is set before
\* the settle delay begins), and no delay of a later cycle is.
C8_NoticedAtLoopCondition ==
  /\ lateMs <= CycleMs
  /\ raisedAt \in {"loop", "wait"} => lateMs = 0
  /\ raisedAt \in {"idle_bl", "idle_sleep", "idle_off"} => lateMs <= IDLE_MS
  /\ wpc \in Noticed =>
       /\ raisedAt \in {"turn_on", "settle"} => lateMs = CycleMs
       /\ raisedAt \in {"bl_on", "draw1", "hold"} => lateMs = HOLD_MS + img_dsp_ms
       /\ raisedAt \in {"color", "draw2", "show"} => lateMs = img_dsp_ms
       /\ raisedAt = "idle_sleep" => lateMs = IDLE_MS

\* The Event was set during the settle delay and thread_display has noticed
\* it after the three delays of the cycle.
C8_Witness == wpc = "final_bl" /\ raisedAt = "settle" /\ lateMs = CycleMs

InitCalls == << Call("initialize", COLOR_MODE), Call("draw", Black.id) >>

\* The calls of one display cycle of frame f, lines 54-60.
CycleCalls(f) ==
  << Call("turn_on", 0), Call("set_backlight", 1), Call("draw", f),
     Call("set_color_mode", COLOR_MODE), Call("draw", f) >>

RECURSIVE IdlePairs(_)
\* The calls of n passes of the idle branch, lines 67-69.
IdlePairs(n) ==
  IF n = 0 THEN << >>
  ELSE << Call("set_backlight", 0), Call("turn_off", 0) >> \o IdlePairs(n - 1)

\* The part of s the record of calls has room for.
Recorded(s) == SubSeq(s, 1, IF Len(s) < MaxCalls THEN Len(s) ELSE MaxCalls)

\* One frame has been put on the queue and no shutdown has been asked for.
OneFrameNoShutdown == Len(enq) = 1 /\ do_run /\ ~p2k

\* C9 as claimed: with one frame enqueued and no shutdown, the calls after
\* initialize and clear are turn_on, set_backlight(1), draw, set_color_mode,
\* draw and then set_backlight(0), turn_off() of the empty polls, nothing
\* else before or between them.
C9_CallsFromInitialisation ==
  OneFrameNoShutdown
    => IsPrefix(calls, Recorded(InitCalls \o CycleCalls(enq[1])
                                  \o IdlePairs(MaxCalls)))

\* C9 as amended: the five calls of the cycle are made in this order from the
\* moment the frame is dequeued, followed by set_backlight(0), turn_off() once
\* per empty poll; between initialisation and the dequeue the only calls are
\* set_backlight(0), turn_off() of the empty polls before the frame arrived.
C9_CallsFromDequeue ==
  OneFrameNoShutdown =>
    /\ \E k \in 0..MaxCalls :
         IsPrefix(calls, Recorded(InitCalls \o IdlePairs(k)
                                    \o CycleCalls(enq[1])
                                    \o IdlePairs(MaxCalls)))
    /\ deq = << >> => IsPrefix(calls, Recorded(InitCalls \o IdlePairs(MaxCalls)))
    /\ (wpc = "loop" /\ deq = enq /\ Len(calls) < MaxCalls) =>
         \E k \in 0..MaxCalls : \E j \in 0..MaxCalls :
           calls = InitCalls \o IdlePairs(k) \o CycleCalls(enq[1])
                     \o IdlePairs(j)

\* The queue was found empty once before the frame came; the frame has been
\* shown and the queue found empty again.
C9_Witness ==
  /\ OneFrameNoShutdown
  /\ wpc = "loop"
  /\ calls = InitCalls \o IdlePairs(1) \o CycleCalls(enq[1]) \o IdlePairs(1)


\* ---------------------------------------------------------------- C11

\* What the Display Session is: the held interface, the panel's state and
\* the record of the calls made on it.
SessionState == << held, power, backlight, color_mode, calls, recent, nAcq, nRel >>

\* C11: only thread_display invokes Display Session operations: no step of
\* main or of a producer (format_image) changes the session, the panel or the
\* record of display calls, and at most one session is held at any time.
C11_OnlyWorkerTouchesDisplay ==
  /\ [][(Main \/ Producers) => UNCHANGED SessionState]_vars
  /\ [](nAcq - nRel \in {0, 1})
  /\ [](held => wpc \notin {"unstarted", "start", "done", "crashed"})

\* main ran to its end and a producer enqueued a frame, while the worker held
\* the session and made display calls.
C11_Witness ==
  /\ mpc = "stopped"
  /\ Len(enq) > 0
  /\ Len(calls) > 2
  /\ nAcq = 1

\* ---------------------------------------------------------------- C12

\* C12: the interface is acquired at most once, is held exactly between its
\* acquisition and its release, and is released on every exit of
\* thread_display, by return and by exception alike: one release for the
\* one acquisition.
C12_AcquireReleasePaired ==
  /\ nAcq <= 1
  /\ nRel <= nAcq
  /\ held <=> (nAcq = nRel + 1)
  /\ Terminated => (~held /\ nRel = nAcq)

\* thread_display was left by an exception of a display call, and the
\* interface acquired was released.
C12_Witness ==
  /\ wpc = "crashed"
  /\ err = "HardwareIoError"
  /\ nAcq = 1
  /\ nRel = 1
  /\ ~held

\* ---------------------------------------------------------------- C13

\* C13: when acquiring the interface fails, thread_display is over at once:
\* no display call was made (no initialize, clear, power, backlight or draw),
\* the panel was never touched and no frame was dequeued.
C13_AcquireFailureDoesNothing ==
  err = "HardwareUnavailable" =>
    /\ wpc = "crashed"
    /\ calls = << >>
    /\ recent = << >>
    /\ power = "unset"
    /\ backlight = "unset"
    /\ color_mode = 0
    /\ deq = << >>
    /\ drawn = << >>
    /\ data = NoFrame
    /\ ~held
    /\ nAcq = 0

\* The acquisition failed, a frame was enqueued since and is still pending
\* when main has stopped.
C13_Witness ==
  /\ err = "HardwareUnavailable"
  /\ img_queue # << >>
  /\ mpc = "stopped"


\* ---------------------------------------------------------------- C14

\* The settle interval: turn_on() of line 54 returned, set_backlight(1) of
\* line 56 is not yet called.
SettleSites == {"settle", "bl_on"}

\* C14: throughout every settle interval the panel is on and the backlight
\* is off, also for a frame dequeued right after the previous frame's
\* display duration.
C14_SettleIsDark ==
  wpc \in SettleSites => (power = "on" /\ BacklightOff)

\* The part of C14 that holds: the panel is on throughout the settle
\* interval, and the backlight is off when the call before turn_on() was the
\* turn_off() of an empty poll or the clear of line 41.
C14_SettleIsDarkAfterIdle ==
  wpc \in SettleSites =>
    /\ power = "on"
    /\ (Len(recent) = 2 /\ recent[1].op \in {"turn_off", "draw"} /\ Len(deq) = 1)
          => BacklightOff
    /\ (Len(recent) = 2 /\ recent[1].op = "turn_off") => BacklightOff


\* ---------------------------------------------------------------- C15

\* The positions of one display cycle, lines 54-61, and the position that
\* follows each when its call or delay returns.
CycleSites ==
  {"turn_on", "settle", "bl_on", "draw1", "hold", "color", "draw2", "show"}

CycleNext ==
  [turn_on |-> "settle", settle |-> "bl_on", bl_on |-> "draw1",
   draw1 |-> "hold", hold |-> "color", color |-> "draw2", draw2 |-> "show",
   show |-> "loop"]

\* The last two calls of the cycle of frame f, lines 59-60.
CycleEnd(f) == << Call("set_color_mode", COLOR_MODE), Call("draw", f) >>

\* What a cycle works on: the session, the frame dequeued and the draws.
CycleState == << SessionState, data, deq, drawn >>

\* C15: once a frame is dequeued its cycle is driven by elapsed time only.
\* From a position of the cycle thread_display goes to the next position of
\* the cycle and nowhere else (an exception of the call apart), whether or
\* not the Event or do_run is set; a step of another thread taken meanwhile
\* changes neither the frame nor the panel; the signal is noticed only with
\* every dequeued frame drawn twice; and the cycle is carried through to the
\* while condition after the display-duration wait.
C15_CycleIgnoresSignal ==
  /\ [][(wpc \in CycleSites /\ wpc' # wpc)
          => wpc' \in {CycleNext[wpc], "unwind"}]_vars
  /\ [][(wpc \in CycleSites /\ wpc' = wpc)
          => UNCHANGED CycleState]_vars
  /\ [](wpc = "show" => recent = CycleEnd(data.id))
  /\ [](wpc \in Noticed => Len(drawn) = 2 * Len(deq))
  /\ [](wpc \in CycleSites => <>(wpc = "loop" \/ err # "none"))

\* The Event was set during the hold of the only frame's cycle, and the
\* cycle's five calls were all made before thread_display left the loop.
C15_Witness ==
  /\ raisedAt = "hold"
  /\ wpc = "final_bl"
  /\ Len(deq) = 1
  /\ calls = InitCalls \o CycleCalls(deq[1])
  /\ lateMs = HOLD_MS + img_dsp_ms


\* ---------------------------------------------------------------- C16

\* C16: while the queue stays empty, turn_off() is issued only if the panel
\* is not already off: thread_display is about to call the turn_off() of
\* line 69 only with the panel not yet powered off.
C16_TurnOffOnlyIfNotOff ==
  wpc = "idle_off" => power # "off"

\* ---------------------------------------------------------------- C17

\* The positions of the empty-queue branch, lines 63-69.
IdleSites == {"idle_bl", "idle_sleep", "idle_off"}

\* The panel is powered off and dark by the calls of lines 67 and 69.
PoweredDown == power = "off" /\ backlight = "off"

\* A frame has arrived or shutdown has been asked for.
IdleOver == img_queue # << >> \/ ~do_run \/ p2k

\* C17: when the queue is found empty after a display cycle and no further
\* frame arrives, thread_display eventually has called set_backlight(0) and
\* turn_off(), and from then on panel and backlight stay off until a frame
\* is dequeued or shutdown is requested.
C17_IdlePowersDown ==
  /\ [](wpc = "idle_bl" /\ deq # << >> => <>(PoweredDown \/ IdleOver))
  /\ [][(PoweredDown /\ ~PoweredDown') => wpc = "turn_on"]_vars

\* The part of C17 that holds: the same, unless a display call raises.
C17_IdlePowersDownUnlessRaised ==
  /\ [](wpc = "idle_bl" /\ deq # << >>
          => <>(PoweredDown \/ IdleOver \/ err # "none"))
  /\ [][(PoweredDown /\ ~PoweredDown') => wpc = "turn_on"]_vars


\* ---------------------------------------------------------------- C18

\* C18: 'Turning off' is logged once per idle episode: at the first empty
\* poll after the start or after a frame's cycle, and not again on later
\* empty polls until a frame has been dequeued. The flag is set exactly when
\* the message of the episode has been logged.
C18_LoggedOncePerIdleEpisode ==
  /\ offLogs <= 1
  /\ wpc \in IdleSites => offLogs = 1
  /\ is_log_turn_off <=> (offLogs = 1)
  /\ wpc \in CycleSites => offLogs = 0

\* After the cycle of the only frame the queue was found empty twice in
\* succession, and the message was logged once.
C18_Witness ==
  /\ Len(deq) = 1
  /\ calls = InitCalls \o CycleCalls(deq[1]) \o IdlePairs(2)
  /\ wpc = "loop"
  /\ offLogs = 1


\* ---------------------------------------------------------------- C19

\* C19: once main has set do_run to False and set the Event, thread_display
\* dequeues at most one more frame, and that only when the Event was set
\* between p2k.wait(1) timing out and q.get_nowait(); only dequeued frames
\* are drawn, every other frame stays on the queue, and thread_display is
\* over with those frames pending.
C19_AtMostOneMoreDequeue ==
  p2k =>
    /\ Len(deq) <= deqAtRaise + 1
    /\ Len(deq) > deqAtRaise => raisedAt = "get"
    /\ Len(deq) + Len(img_queue) = Len(enq)
    /\ \A i \in 1..Len(img_queue) : img_queue[i].id = enq[Len(deq) + i]
    /\ \A i \in 1..Len(drawn) : \E j \in 1..Len(deq) : drawn[i] = deq[j]
    /\ Terminated => Len(img_queue) >= Len(enq) - (deqAtRaise + 1)

\* The Event was set with two frames pending, right before q.get_nowait():
\* one frame was dequeued and shown, and thread_display returned with the
\* other still on the queue.
C19_Witness ==
  /\ p2k
  /\ wpc = "done"
  /\ deqAtRaise = 0
  /\ Len(deq) = 1
  /\ Len(img_queue) = 1
  /\ drawn = << deq[1], deq[1] >>

\* ---------------------------------------------------------------- C20

\* C20: once run_polling has returned and main has set the Event,
\* thread_display is over after finitely many steps, whatever is on the
\* queue and wherever it was, and main's thread.join() returns.
C20_JoinReturns ==
  /\ [](p2k => <>Terminated)
  /\ [](mpc = "join" => <>(mpc = "stopped"))
  /\ [](mpc = "stopped" => Terminated)

\* The Event was set during the display duration of a frame with another
\* frame pending; thread_display returned and main was joined.
C20_Witness ==
  /\ mpc = "stopped"
  /\ wpc = "done"
  /\ raisedAt = "show"
  /\ img_queue # << >>

====
